---- MODULE Spec2Model ----
(***************************************************************************)
(* Model of the static-site metadata pipeline of ianphil/tools:            *)
(*   gather_links.py   harvests `git log` per *.html file and writes       *)
(*                     gathered_links.json and tools.json                  *)
(*   build_by_month.py renders by-month.html from tools.json               *)
(*   build_colophon.py renders colophon.html from gathered_links.json      *)
(*   build_index.py    renders index.html from README.md and tools.json    *)
(*   build_dates.py    projects dates.json from gathered_links.json        *)
(*                                                                         *)
(* Text is modelled as a sequence of one-character strings, so that the    *)
(* slicing, splitting, comparing and pattern matching the scripts do are   *)
(* computed, not assumed.  A JSON file is modelled by the value that       *)
(* json.dumps wrote and json.loads reads back: lists as sequences, and an  *)
(* object whose key order matters as a sequence of <<key, value>> pairs.   *)
(***************************************************************************)
EXTENDS Integers, Sequences, FiniteSets, TLC

(***************************************************************************)
(* Python str primitives                                                   *)
(***************************************************************************)

\* The printable ASCII characters in code-point order, from 32 (space) on.
\* Code point 96 is held by a placeholder: no text of the model uses it.
Printable ==
  << " ", "!", "\"", "#", "$", "%", "&", "'", "(", ")", "*", "+", ",", "-", ".", "/",
     "0", "1", "2", "3", "4", "5", "6", "7", "8", "9", ":", ";", "<", "=", ">", "?",
     "@", "A", "B", "C", "D", "E", "F", "G", "H", "I", "J", "K", "L", "M", "N", "O",
     "P", "Q", "R", "S", "T", "U", "V", "W", "X", "Y", "Z", "[", "\\", "]", "^", "_",
     "GRAVE", "a", "b", "c", "d", "e", "f", "g", "h", "i", "j", "k", "l", "m", "n", "o",
     "p", "q", "r", "s", "t", "u", "v", "w", "x", "y", "z", "{", "|", "}", "~" >>

CodePoints ==
  [c \in {Printable[i] : i \in 1..Len(Printable)} |->
     31 + (CHOOSE i \in 1..Len(Printable) : Printable[i] = c)]

\* ord(c): the code point of a character (newline is 10).
Ord(c) == IF c = "\n" THEN 10 ELSE CodePoints[c]

\* str.lower() on one character.
Lower(c) ==
  IF Ord(c) \in 65..90 THEN Printable[Ord(c) + 32 - 31] ELSE c

LowerStr(s) == [i \in 1..Len(s) |-> Lower(s[i])]

\* The characters str.strip() removes and the regex class \s matches.
IsSpace(c) == c \in {" ", "\n"}

MinOf(a, b) == IF a < b THEN a ELSE b

\* s[:n] for n >= 0: at most the first n characters.
Take(s, n) == SubSeq(s, 1, MinOf(n, Len(s)))

\* a < b on Python strings: lexicographic by code point, a proper prefix first.
StrLess(a, b) ==
  LET differ == {k \in 1..MinOf(Len(a), Len(b)) : a[k] # b[k]}
      first  == CHOOSE k \in differ : \A j \in differ : k <= j
  IN  IF differ = {} THEN Len(a) < Len(b)
      ELSE Ord(a[first]) < Ord(b[first])

StrLeq(a, b) == a = b \/ StrLess(a, b)

\* s.startswith(p) at offset i (1-based): s[i .. i+len(p)-1] = p.
MatchAt(s, i, p) ==
  /\ i >= 1
  /\ i + Len(p) - 1 <= Len(s)
  /\ \A j \in 1..Len(p) : s[i + j - 1] = p[j]

StartsWith(s, p) == MatchAt(s, 1, p)

\* s.find(p): the 0-based index of the first occurrence of p in s, or -1.
Find(s, p) ==
  LET hits == {i \in 1..(Len(s) + 1) : MatchAt(s, i, p)}
  IN  IF hits = {} THEN -1
      ELSE (CHOOSE i \in hits : \A j \in hits : i <= j) - 1

\* p in s
Contains(s, p) == Find(s, p) # -1

\* s.strip()
Strip(s) ==
  IF \A i \in 1..Len(s) : IsSpace(s[i]) THEN << >>
  ELSE SubSeq(s,
              CHOOSE i \in 1..Len(s) :
                 ~IsSpace(s[i]) /\ \A j \in 1..(i - 1) : IsSpace(s[j]),
              CHOOSE i \in 1..Len(s) :
                 ~IsSpace(s[i]) /\ \A j \in (i + 1)..Len(s) : IsSpace(s[j]))

\* The elements of a finite set of integers in increasing order.
Ascending(S) ==
  [k \in 1..Cardinality(S) |->
     CHOOSE x \in S : Cardinality({y \in S : y < x}) = k - 1]

\* s.split(sep) for a one-character separator.
Split(s, sep) ==
  LET cuts == Ascending({i \in 1..Len(s) : s[i] = sep})
      n    == Len(cuts)
      from(k) == IF k = 1 THEN 1 ELSE cuts[k - 1] + 1
      to(k)   == IF k = n + 1 THEN Len(s) ELSE cuts[k] - 1
  IN  [k \in 1..(n + 1) |-> SubSeq(s, from(k), to(k))]

\* s.split(sep, maxsplit): at most maxsplit cuts, the rest stays in the last part.
SplitMax(s, sep, maxsplit) ==
  LET all  == Ascending({i \in 1..Len(s) : s[i] = sep})
      n    == MinOf(Len(all), maxsplit)
      from(k) == IF k = 1 THEN 1 ELSE all[k - 1] + 1
      to(k)   == IF k = n + 1 THEN Len(s) ELSE all[k] - 1
  IN  [k \in 1..(n + 1) |-> SubSeq(s, from(k), to(k))]

\* sep.join(parts)
RECURSIVE Join(_, _)
Join(parts, sep) ==
  IF parts = << >> THEN << >>
  ELSE IF Len(parts) = 1 THEN parts[1]
  ELSE parts[1] \o sep \o Join(Tail(parts), sep)

\* sorted(range(len(keys)), key=keys.__getitem__, reverse=reverse): the indices
\* of keys in sorted order.  Python's sort is stable, also under reverse=True:
\* elements with equal keys keep their original relative order.
SortedIndices(keys, reverse) ==
  LET n == Len(keys)
      before(i, j) ==
        \/ IF reverse THEN StrLess(keys[j], keys[i]) ELSE StrLess(keys[i], keys[j])
        \/ keys[i] = keys[j] /\ i < j
      rank == [i \in 1..n |-> Cardinality({j \in 1..n : before(j, i)})]
  IN  [k \in 1..n |-> CHOOSE i \in 1..n : rank[i] = k - 1]

\* sorted(items, key=..., reverse=...) given each item's key.
SortedBy(items, keys, reverse) ==
  LET idx == SortedIndices(keys, reverse)
  IN  [k \in 1..Len(items) |-> items[idx[k]]]

(***************************************************************************)
(* gather_links.py: the pure parts                                         *)
(***************************************************************************)

\* EXCLUDED_FILES = {"index.html", "colophon.html", "by-month.html"}
IndexHtml    == << "i", "n", "d", "e", "x", ".", "h", "t", "m", "l" >>
ColophonHtml == << "c", "o", "l", "o", "p", "h", "o", "n", ".", "h", "t", "m", "l" >>
ByMonthHtml  == << "b", "y", "-", "m", "o", "n", "t", "h", ".", "h", "t", "m", "l" >>
EXCLUDED_FILES == {IndexHtml, ColophonHtml, ByMonthHtml}

\* Path(name).stem: the name without its last suffix.
Stem(name) ==
  LET dots == {i \in 1..Len(name) : name[i] = "."}
      last == CHOOSE i \in dots : \A j \in dots : i >= j
  IN  IF dots # {} /\ last > 1 /\ last < Len(name)
        THEN SubSeq(name, 1, last - 1)
        ELSE name

\* The characters the class [^\s<>"] of the URL pattern refuses.
UrlStop(c) == IsSpace(c) \/ c \in {"<", ">", "\""}

HttpPrefix  == << "h", "t", "t", "p", ":", "/", "/" >>
HttpsPrefix == << "h", "t", "t", "p", "s", ":", "/", "/" >>

\* The end (1-based, inclusive) of the match of https?://[^\s<>"]+ that starts
\* at position i of s, or 0 when the pattern does not match there.
UrlEndAt(s, i) ==
  LET plen == IF MatchAt(s, i, HttpsPrefix) THEN Len(HttpsPrefix)
              ELSE IF MatchAt(s, i, HttpPrefix) THEN Len(HttpPrefix)
              ELSE 0
      body == i + plen
      stops == {j \in body..Len(s) : UrlStop(s[j])}
      stop  == IF stops = {} THEN Len(s) + 1
               ELSE CHOOSE j \in stops : \A k \in stops : j <= k
  IN  IF plen = 0 \/ stop = body THEN 0 ELSE stop - 1

\* re.findall(r'https?://[^\s<>"]+', s) from position i on: the leftmost,
\* longest, non-overlapping matches in order.
RECURSIVE FindUrlsFrom(_, _)
FindUrlsFrom(s, i) ==
  IF i > Len(s) THEN << >>
  ELSE LET e == UrlEndAt(s, i)
       IN  IF e = 0 THEN FindUrlsFrom(s, i + 1)
           ELSE << SubSeq(s, i, e) >> \o FindUrlsFrom(s, e + 1)

FindUrls(s) == FindUrlsFrom(s, 1)

\* The loop body of get_file_commit_details for one line of the log: a line
\* that is empty or has fewer than three "|"-separated parts adds nothing.
ParseLine(line) ==
  LET parts == SplitMax(line, "|", 2)
  IN  IF line = << >> \/ Len(parts) # 3 THEN << >>
      ELSE << [hash    |-> parts[1],
               date    |-> parts[2],
               message |-> parts[3],
               urls    |-> FindUrls(parts[3])] >>

RECURSIVE ParseLines(_)
ParseLines(lines) ==
  IF lines = << >> THEN << >>
  ELSE ParseLine(Head(lines)) \o ParseLines(Tail(lines))

\* get_file_commit_details, given what subprocess.run did for the path:
\*   kind "ok"         git exited 0 and printed stdout
\*   kind "exit_error" git exited non-zero: check=True raises CalledProcessError
\*   kind "os_error"   subprocess.run raised something else (the executable
\*                     cannot be started, the output cannot be decoded)
\* Only CalledProcessError is caught; any other exception leaves the function.
get_file_commit_details(run) ==
  IF run.kind = "os_error" THEN [raised |-> TRUE, commits |-> << >>]
  ELSE IF run.kind = "exit_error" THEN [raised |-> FALSE, commits |-> << >>]
  ELSE [raised |-> FALSE, commits |-> ParseLines(Split(Strip(run.stdout), "\n"))]

TitleOpen  == << "<", "t", "i", "t", "l", "e", ">" >>
TitleClose == << "<", "/", "t", "i", "t", "l", "e", ">" >>

\* The end of group 1 when <title>([^<]+)</title> (IGNORECASE) matches at
\* position i of content (low: content in lower case), else 0.  [^<]+ runs
\* to the next "<", where the closing tag must stand.
TitleEndAt(content, low, i) ==
  LET body  == i + Len(TitleOpen)
      opens == {j \in body..Len(content) : content[j] = "<"}
      next  == IF opens = {} THEN 0 ELSE CHOOSE j \in opens : \A k \in opens : j <= k
  IN  IF MatchAt(low, i, TitleOpen) /\ next > body /\ MatchAt(low, next, TitleClose)
        THEN next - 1 ELSE 0

\* extract_title: the stripped text of the first <title> element, else the stem.
extract_title(content, stem) ==
  LET low  == LowerStr(content)
      hits == {i \in 1..Len(content) : TitleEndAt(content, low, i) # 0}
      i    == CHOOSE h \in hits : \A k \in hits : h <= k
  IN  IF hits = {} THEN stem
      ELSE Strip(SubSeq(content, i + Len(TitleOpen), TitleEndAt(content, low, i)))

\* The for loop of extract_description over the remaining lines, with the
\* paragraph collected so far and the in_paragraph flag.
RECURSIVE DescriptionLoop(_, _, _)
DescriptionLoop(lines, paragraph, in_paragraph) ==
  IF lines = << >> THEN paragraph
  ELSE LET stripped == Strip(Head(lines))
       IN  IF StartsWith(stripped, << "#" >>)
             THEN DescriptionLoop(Tail(lines), paragraph, in_paragraph)
           ELSE IF stripped # << >>
             THEN DescriptionLoop(Tail(lines), Append(paragraph, stripped), TRUE)
           ELSE IF in_paragraph THEN paragraph
           ELSE DescriptionLoop(Tail(lines), paragraph, in_paragraph)

\* extract_description: exists tells whether <slug>.docs.md is there,
\* readable whether read_text returns (an exception of it is caught and gives
\* the empty string), text is what it returns.
extract_description(exists, readable, text) ==
  IF ~exists THEN << >>
  ELSE IF ~readable THEN << >>
  ELSE Join(DescriptionLoop(Split(Strip(text), "\n"), << >>, FALSE), << " " >>)

(***************************************************************************)
(* State                                                                   *)
(***************************************************************************)

VARIABLES
  tree,    \* the *.html files of the checkout: name -> [content, git], where
           \* git is what the `git log` subprocess does for that path
  docs,    \* the companion documents: slug -> [readable, text] of <slug>.docs.md
  readme,  \* README.md: [exists, md, html], html being what the markdown
           \* library returns for md
  fs,      \* the generated files: name -> [exists, data]
  last     \* the most recent run: [op, result], result "ok" (ran to the end),
           \* "skipped" (printed a diagnostic and returned) or "raised"

vars == << tree, docs, readme, fs, last >>

GatheredLinksJson == "gathered_links.json"
ToolsJson         == "tools.json"
DatesJson         == "dates.json"
ByMonthPage       == "by-month.html"
ColophonPage      == "colophon.html"
IndexPage         == "index.html"

OutputFiles ==
  {GatheredLinksJson, ToolsJson, DatesJson, ByMonthPage, ColophonPage, IndexPage}

\* A file that exists, holding data.
File(data) == [exists |-> TRUE, data |-> data]

\* The name, as Path.glob("*.html") reports it, of a generated page.
PageName(f) ==
  CASE f = ByMonthPage  -> ByMonthHtml
    [] f = ColophonPage -> ColophonHtml
    [] f = IndexPage    -> IndexHtml

(***************************************************************************)
(* gather_links.py: gather_links()                                         *)
(***************************************************************************)

\* sorted(Path(".").glob("*.html")): the checkout's pages and the generated
\* pages that exist, in name order.
HtmlFiles(t, f) ==
  LET names == DOMAIN t \cup
               {PageName(g) : g \in {h \in {ByMonthPage, ColophonPage, IndexPage} :
                                        f[h].exists}}
  IN  [k \in 1..Cardinality(names) |->
         CHOOSE x \in names : Cardinality({y \in names : StrLess(y, x)}) = k - 1]

\* What the `git log` subprocess does for a path.  A generated page that is
\* not part of the checkout has no history: git exits 0 and prints nothing.
GitRun(t, name) ==
  IF name \in DOMAIN t THEN t[name].git ELSE [kind |-> "ok", stdout |-> << >>]

\* get_file_commit_details for every file the loop can reach.
Harvest(t, f) ==
  LET files == HtmlFiles(t, f)
  IN  [name \in {files[i] : i \in DOMAIN files} |->
         get_file_commit_details(GitRun(t, name))]

\* Survivors without the EXCLUDED_FILES test.
SurvivorsKeepExcluded(files, harvest) ==
  SelectSeq(files, LAMBDA name : harvest[name].commits # << >>)

\* The files of the loop that get past both `continue`s, in loop order.
Survivors(files, harvest) ==
  SelectSeq(files, LAMBDA name : /\ name \notin EXCLUDED_FILES
                                 /\ harvest[name].commits # << >>)

\* Whether the loop is left by an exception of get_file_commit_details.
HarvestRaises(files, harvest) ==
  \E i \in DOMAIN files : files[i] \notin EXCLUDED_FILES /\ harvest[files[i]].raised

\* set(url for c in commits for url in c["urls"])
UrlSet(commits) ==
  UNION {{commits[i].urls[j] : j \in DOMAIN commits[i].urls} : i \in DOMAIN commits}

\* list(set(...)): the elements in the iteration order of a set of str, which
\* follows the per-process string hash seed: any order can come out.
ListsOfSet(S) ==
  {q \in [1..Cardinality(S) -> S] : \A x \in S : \E i \in DOMAIN q : q[i] = x}

\* ToolRecord with created and updated taken from the wrong ends of the log.
ToolRecordSwapped(t, d, name, commits) ==
  LET slug == Stem(name)
  IN  [slug        |-> slug,
       title       |-> extract_title(t[name].content, slug),
       description |-> extract_description(slug \in DOMAIN d,
                                           slug \in DOMAIN d /\ d[slug].readable,
                                           IF slug \in DOMAIN d THEN d[slug].text ELSE << >>),
       url         |-> name,
       created     |-> commits[1].date,
       updated     |-> commits[Len(commits)].date]

\* The tools.json record of one surviving file.
ToolRecord(t, d, name, commits) ==
  LET slug == Stem(name)
  IN  [slug        |-> slug,
       title       |-> extract_title(t[name].content, slug),
       description |-> extract_description(slug \in DOMAIN d,
                                           slug \in DOMAIN d /\ d[slug].readable,
                                           IF slug \in DOMAIN d THEN d[slug].text ELSE << >>),
       url         |-> name,
       created     |-> commits[Len(commits)].date,
       updated     |-> commits[1].date]

\* tools after tools.sort(key=created, reverse=True).
ToolsList(t, d, names, harvest) ==
  LET recs == [k \in DOMAIN names |-> ToolRecord(t, d, names[k], harvest[names[k]].commits)]
  IN  SortedBy(recs, [k \in DOMAIN recs |-> recs[k].created], TRUE)

\* The gathered_links dict, as <<slug, entry>> pairs in insertion order, for
\* a choice of the order of each all_urls list.  gathered_links[slug] = {...}
\* on a slug that is already a key replaces its entry and leaves the key
\* where it is: a slug is listed where its first file put it, with the entry
\* of its last file.
GatheredLinks(names, harvest, order) ==
  LET firsts == {k \in DOMAIN names :
                   \A j \in 1..(k - 1) : Stem(names[j]) # Stem(names[k])}
      key(i) == CHOOSE k \in firsts : Cardinality({j \in firsts : j < k}) = i - 1
      final(k) == CHOOSE j \in DOMAIN names :
                     /\ Stem(names[j]) = Stem(names[k])
                     /\ \A l \in DOMAIN names : Stem(names[l]) = Stem(names[k]) => l <= j
  IN  [i \in 1..Cardinality(firsts) |->
         << Stem(names[key(i)]),
            [file     |-> names[final(key(i))],
             commits  |-> harvest[names[final(key(i))]].commits,
             all_urls |-> order[final(key(i))]] >>]

\* The orders the all_urls lists of one run can come out in.
UrlOrders(names, harvest) ==
  {order \in [DOMAIN names ->
                UNION {ListsOfSet(UrlSet(harvest[names[k]].commits)) : k \in DOMAIN names}] :
     \A k \in DOMAIN names : order[k] \in ListsOfSet(UrlSet(harvest[names[k]].commits))}

GatherLinks ==
  LET files   == HtmlFiles(tree, fs)
      harvest == Harvest(tree, fs)
      names   == Survivors(files, harvest)
  IN  IF HarvestRaises(files, harvest)
        THEN /\ last' = [op |-> "gather_links", result |-> "raised"]
             /\ UNCHANGED << tree, docs, readme, fs >>
        ELSE \E order \in UrlOrders(names, harvest) :
                /\ fs' = [fs EXCEPT
                            ![GatheredLinksJson] = File(GatheredLinks(names, harvest, order)),
                            ![ToolsJson] = File(ToolsList(tree, docs, names, harvest))]
                /\ last' = [op |-> "gather_links", result |-> "ok"]
                /\ UNCHANGED << tree, docs, readme >>

(***************************************************************************)
(* build_by_month.py                                                       *)
(***************************************************************************)

IsDigit(c) == c \in {"0", "1", "2", "3", "4", "5", "6", "7", "8", "9"}

DigitValue(c) == Ord(c) - 48

MonthNames ==
  << << "J", "a", "n", "u", "a", "r", "y" >>,
     << "F", "e", "b", "r", "u", "a", "r", "y" >>,
     << "M", "a", "r", "c", "h" >>,
     << "A", "p", "r", "i", "l" >>,
     << "M", "a", "y" >>,
     << "J", "u", "n", "e" >>,
     << "J", "u", "l", "y" >>,
     << "A", "u", "g", "u", "s", "t" >>,
     << "S", "e", "p", "t", "e", "m", "b", "e", "r" >>,
     << "O", "c", "t", "o", "b", "e", "r" >>,
     << "N", "o", "v", "e", "m", "b", "e", "r" >>,
     << "D", "e", "c", "e", "m", "b", "e", "r" >> >>

\* The year as strftime("%Y") prints it: the number without leading zeros
\* (the C library's %Y does not pad a year below 1000).
RECURSIVE YearText(_)
YearText(digits) ==
  IF Len(digits) > 1 /\ Head(digits) = "0" THEN YearText(Tail(digits)) ELSE digits

\* format_month: datetime.strptime(ym, "%Y-%m").strftime("%B %Y"), and ym
\* itself when strptime refuses it.  %Y takes four digits (a year from 1 on),
\* %m takes 1[0-2], 0[1-9] or [1-9], and nothing may follow.
format_month(ym) ==
  LET yearOk == /\ Len(ym) >= 5
                /\ \A i \in 1..4 : IsDigit(ym[i])
                /\ SubSeq(ym, 1, 4) # << "0", "0", "0", "0" >>
                /\ ym[5] = "-"
      mm     == SubSeq(ym, 6, Len(ym))
      month  == IF Len(mm) = 1 /\ IsDigit(mm[1]) THEN DigitValue(mm[1])
                ELSE IF Len(mm) = 2 /\ IsDigit(mm[1]) /\ IsDigit(mm[2])
                  THEN 10 * DigitValue(mm[1]) + DigitValue(mm[2])
                ELSE 0
  IN  IF yearOk /\ month \in 1..12
        THEN MonthNames[month] \o << " " >> \o YearText(SubSeq(ym, 1, 4))
        ELSE ym

\* The key cut after the year.
YearMonthYearOnly(created) == Take(created, 4)

\* created[:7], the YYYY-MM key of a record.
YearMonth(created) == Take(created, 7)

\* The keys of the by_month dict: the months of the records whose created is
\* not empty.
MonthKeys(tools) ==
  {YearMonth(tools[i].created) : i \in {j \in DOMAIN tools : tools[j].created # << >>}}

\* sorted(by_month.keys(), reverse=True)
SortedMonths(tools) ==
  LET keys == MonthKeys(tools)
  IN  [k \in 1..Cardinality(keys) |->
         CHOOSE x \in keys : Cardinality({y \in keys : StrLess(x, y)}) = k - 1]

\* by_month[ym]: the records appended under ym, in the order of tools.
Bucket(tools, ym) ==
  SelectSeq(tools, LAMBDA t : t.created # << >> /\ YearMonth(t.created) = ym)

\* month_tools left in the order of tools.json.
MonthToolsUnsorted(tools, ym) == Bucket(tools, ym)

\* month_tools after month_tools.sort(key=created).
MonthTools(tools, ym) ==
  LET b == Bucket(tools, ym)
  IN  SortedBy(b, [k \in DOMAIN b |-> b[k].created], FALSE)

\* The length up to which a description is shown whole.
DescriptionLimit == 150

\* description[:150] + "..." if len(description) > 150 else description
ShortDescription(description) ==
  IF Len(description) > DescriptionLimit
    THEN Take(description, DescriptionLimit) \o << ".", ".", "." >>
    ELSE description

\* by-month.html as the template's two holes: the table of contents (one line
\* per month: anchor key, label, count) and one section per month whose items
\* are the records of the loop `for tool in month_tools`, each with the
\* description text the page shows for it.
ByMonthDocument(tools) ==
  LET months == SortedMonths(tools)
  IN  [toc      |-> [k \in DOMAIN months |->
                       [ym    |-> months[k],
                        label |-> format_month(months[k]),
                        count |-> Len(Bucket(tools, months[k]))]],
       sections |-> [k \in DOMAIN months |->
                       [ym    |-> months[k],
                        label |-> format_month(months[k]),
                        items |-> LET mt == MonthTools(tools, months[k])
                                  IN  [i \in DOMAIN mt |->
                                         [tool       |-> mt[i],
                                          short_desc |-> ShortDescription(mt[i].description)]]]]]

\* build_by_month without the test that tools.json exists: read_text raises.
BuildByMonthUnguarded ==
  IF ~fs[ToolsJson].exists
    THEN /\ last' = [op |-> "build_by_month", result |-> "raised"]
         /\ UNCHANGED << tree, docs, readme, fs >>
    ELSE /\ fs' = [fs EXCEPT ![ByMonthPage] = File(ByMonthDocument(fs[ToolsJson].data))]
         /\ last' = [op |-> "build_by_month", result |-> "ok"]
         /\ UNCHANGED << tree, docs, readme >>

BuildByMonth ==
  IF ~fs[ToolsJson].exists
    THEN /\ last' = [op |-> "build_by_month", result |-> "skipped"]
         /\ UNCHANGED << tree, docs, readme, fs >>
    ELSE /\ fs' = [fs EXCEPT ![ByMonthPage] = File(ByMonthDocument(fs[ToolsJson].data))]
         /\ last' = [op |-> "build_by_month", result |-> "ok"]
         /\ UNCHANGED << tree, docs, readme >>

(***************************************************************************)
(* build_colophon.py                                                       *)
(***************************************************************************)

\* format_date: iso_date[:10] (the empty string stays empty).
format_date(iso_date) == Take(iso_date, 10)

\* tool_info.get("title", slug) and tool_info.get("description", ""), where
\* tool_info is the last record of tools.json with that slug, or {} when
\* there is none (also when tools.json does not exist).
ToolInfo(toolsFile, slug) ==
  LET tools == toolsFile.data
      hits  == {i \in DOMAIN tools : tools[i].slug = slug}
      info  == tools[CHOOSE i \in hits : \A j \in hits : i >= j]
  IN  IF ~toolsFile.exists \/ hits = {}
        THEN [title |-> slug, description |-> << >>]
        ELSE [title |-> info.title, description |-> info.description]

\* The sort key of a slug: commits[0]["date"] if commits else "".
ColophonKey(entry) ==
  IF entry.commits # << >> THEN entry.commits[1].date ELSE << >>

\* sorted(gathered.keys(), key=..., reverse=True), as the <<slug, entry>> pairs.
SortedSlugs(gathered) ==
  SortedBy(gathered, [k \in DOMAIN gathered |-> ColophonKey(gathered[k][2])], TRUE)

\* One <div class="tool"> of colophon.html.
\* The tool-meta line is there only `if commits`.
ColophonEntry(toolsFile, slug, data) ==
  LET info == ToolInfo(toolsFile, slug)
  IN  [slug        |-> slug,
       url         |-> data.file,
       title       |-> info.title,
       description |-> info.description,
       meta        |-> IF data.commits = << >>
                         THEN [shown |-> FALSE, created |-> << >>, updated |-> << >>,
                               count |-> 0]
                         ELSE [shown   |-> TRUE,
                               created |-> format_date(data.commits[Len(data.commits)].date),
                               updated |-> format_date(data.commits[1].date),
                               count   |-> Len(data.commits)],
       history     |-> [i \in DOMAIN data.commits |->
                          [date    |-> format_date(data.commits[i].date),
                           hash    |-> Take(data.commits[i].hash, 8),
                           message |-> data.commits[i].message,
                           urls    |-> data.commits[i].urls]]]

\* colophon.html as the sequence of its tool sections.
ColophonDocument(gathered, toolsFile) ==
  LET order == SortedSlugs(gathered)
  IN  [k \in DOMAIN order |-> ColophonEntry(toolsFile, order[k][1], order[k][2])]

BuildColophon ==
  IF ~fs[GatheredLinksJson].exists
    THEN /\ last' = [op |-> "build_colophon", result |-> "skipped"]
         /\ UNCHANGED << tree, docs, readme, fs >>
    ELSE /\ fs' = [fs EXCEPT ![ColophonPage] =
                      File(ColophonDocument(fs[GatheredLinksJson].data, fs[ToolsJson]))]
         /\ last' = [op |-> "build_colophon", result |-> "ok"]
         /\ UNCHANGED << tree, docs, readme >>

(***************************************************************************)
(* build_dates.py                                                          *)
(***************************************************************************)

\* dates.json as <<file, date>> pairs in insertion order (the files of one
\* gathered_links.json are distinct, so no key is assigned twice).
DatesDocument(gathered) ==
  LET kept == SelectSeq(gathered, LAMBDA p : p[2].commits # << >>)
  IN  [k \in DOMAIN kept |-> << kept[k][2].file, Take(kept[k][2].commits[1].date, 10) >>]

BuildDates ==
  IF ~fs[GatheredLinksJson].exists
    THEN /\ last' = [op |-> "build_dates", result |-> "skipped"]
         /\ UNCHANGED << tree, docs, readme, fs >>
    ELSE /\ fs' = [fs EXCEPT ![DatesJson] = File(DatesDocument(fs[GatheredLinksJson].data))]
         /\ last' = [op |-> "build_dates", result |-> "ok"]
         /\ UNCHANGED << tree, docs, readme >>

(***************************************************************************)
(* build_index.py                                                          *)
(***************************************************************************)

RECENT_LIMIT == 5

\* title = "Tools"
DefaultTitle ==
  << "T", "o", "o", "l", "s" >>

StartMarker ==
  << "<", "!", "-", "-", " ", "r", "e", "c", "e", "n", "t", "l", "y", " ",
     "s", "t", "a", "r", "t", "s", " ", "-", "-", ">" >>

EndMarker ==
  << "<", "!", "-", "-", " ", "r", "e", "c", "e", "n", "t", "l", "y", " ",
     "s", "t", "o", "p", "s", " ", "-", "-", ">" >>

HeadingClose ==
  << "<", "/", "h", "1", ">" >>

\* The page title: the text of the first line of md that starts with "# ".
RECURSIVE FirstHeading(_)
FirstHeading(lines) ==
  IF lines = << >> THEN DefaultTitle
  ELSE IF StartsWith(Head(lines), << "#", " " >>)
    THEN Strip(SubSeq(Head(lines), 3, Len(Head(lines))))
  ELSE FirstHeading(Tail(lines))

PageTitle(md) == FirstHeading(Split(md, "\n"))

\* by_created: sorted(tools, key=created, reverse=True)[:RECENT_LIMIT]
RecentlyAdded(tools) ==
  Take(SortedBy(tools, [k \in DOMAIN tools |-> tools[k].created], TRUE), RECENT_LIMIT)

\* The loop with `>` for `>=` in the test that breaks it.
RECURSIVE UpdatedLoopOffByOne(_, _, _)
UpdatedLoopOffByOne(by_updated, added_slugs, recently_updated) ==
  IF by_updated = << >> THEN recently_updated
  ELSE IF Head(by_updated).slug \notin added_slugs
    THEN IF Len(recently_updated) + 1 > RECENT_LIMIT
           THEN Append(recently_updated, Head(by_updated))
           ELSE UpdatedLoopOffByOne(Tail(by_updated), added_slugs,
                                    Append(recently_updated, Head(by_updated)))
  ELSE UpdatedLoopOffByOne(Tail(by_updated), added_slugs, recently_updated)

\* The loop over by_updated: a record whose slug is not among the recently
\* added ones is appended, and the loop breaks once RECENT_LIMIT are collected.
RECURSIVE UpdatedLoop(_, _, _)
UpdatedLoop(by_updated, added_slugs, recently_updated) ==
  IF by_updated = << >> THEN recently_updated
  ELSE IF Head(by_updated).slug \notin added_slugs
    THEN IF Len(recently_updated) + 1 >= RECENT_LIMIT
           THEN Append(recently_updated, Head(by_updated))
           ELSE UpdatedLoop(Tail(by_updated), added_slugs,
                            Append(recently_updated, Head(by_updated)))
  ELSE UpdatedLoop(Tail(by_updated), added_slugs, recently_updated)

RecentlyUpdated(tools) ==
  LET added == RecentlyAdded(tools)
  IN  UpdatedLoop(SortedBy(tools, [k \in DOMAIN tools |-> tools[k].updated], TRUE),
                  {added[i].slug : i \in DOMAIN added}, << >>)

\* The empty string as a digest.
NoDigest == [empty |-> TRUE, added |-> << >>, updated |-> << >>]

\* build_recent_section: the empty string for no tools; otherwise the two
\* lists of the section, one <li> per record (link, title, date).
build_recent_section(tools) ==
  IF tools = << >> THEN NoDigest
  ELSE LET added   == RecentlyAdded(tools)
           updated == RecentlyUpdated(tools)
       IN  [empty   |-> FALSE,
            added   |-> [i \in DOMAIN added |->
                           [url   |-> added[i].url,
                            title |-> added[i].title,
                            date  |-> format_date(added[i].created)]],
            updated |-> [i \in DOMAIN updated |->
                           [url   |-> updated[i].url,
                            title |-> updated[i].title,
                            date  |-> format_date(updated[i].updated)]]]

\* The body of index.html as head + digest + tail: the text before the
\* digest, the digest (NoDigest: nothing) and the text after it.
InjectRecent(body_html, recent_html) ==
  IF Contains(body_html, StartMarker) /\ Contains(body_html, EndMarker)
    THEN LET start_idx == Find(body_html, StartMarker) + Len(StartMarker)
             end_idx   == Find(body_html, EndMarker)
         IN  [head   |-> Take(body_html, start_idx) \o << "\n" >>,
              digest |-> recent_html,
              tail   |-> << "\n" >> \o SubSeq(body_html, end_idx + 1, Len(body_html))]
  ELSE IF recent_html # NoDigest /\ Find(body_html, HeadingClose) # -1
    THEN LET insert_pos == Find(body_html, HeadingClose) + 5
         IN  [head   |-> Take(body_html, insert_pos) \o << "\n" >>,
              digest |-> recent_html,
              tail   |-> SubSeq(body_html, insert_pos + 1, Len(body_html))]
  ELSE [head |-> body_html, digest |-> NoDigest, tail |-> << >>]

\* index.html: the template's title and body.
IndexDocument(doc, toolsFile) ==
  [title |-> PageTitle(doc.md),
   body  |-> InjectRecent(doc.html,
                          IF toolsFile.exists THEN build_recent_section(toolsFile.data)
                          ELSE NoDigest)]

BuildIndex ==
  IF ~readme.exists
    THEN /\ last' = [op |-> "build_index", result |-> "skipped"]
         /\ UNCHANGED << tree, docs, readme, fs >>
    ELSE /\ fs' = [fs EXCEPT ![IndexPage] = File(IndexDocument(readme, fs[ToolsJson]))]
         /\ last' = [op |-> "build_index", result |-> "ok"]
         /\ UNCHANGED << tree, docs, readme >>

(***************************************************************************)
(* The checkouts the pipeline is run on                                    *)
(***************************************************************************)

WidgetHtml ==
  << "w", "i", "d", "g", "e", "t", ".", "h", "t", "m", "l" >>

GadgetHtml ==
  << "g", "a", "d", "g", "e", "t", ".", "h", "t", "m", "l" >>

WidgetPage ==
  << "<", "h", "t", "m", "l", ">", "<", "h", "e", "a", "d", ">", "<", "t",
     "i", "t", "l", "e", ">", " ", "W", "i", "d", "g", "e", "t", " ", "<",
     "/", "t", "i", "t", "l", "e", ">", "<", "/", "h", "e", "a", "d", ">",
     "<", "/", "h", "t", "m", "l", ">" >>

GadgetPage ==
  << "<", "h", "t", "m", "l", ">", "<", "b", "o", "d", "y", ">", "g", "a",
     "d", "g", "e", "t", "<", "/", "b", "o", "d", "y", ">", "<", "/", "h",
     "t", "m", "l", ">" >>

GadgetDocs ==
  << "#", " ", "G", "a", "d", "g", "e", "t", "\n", "\n", "A", " ", "s", "m",
     "a", "l", "l", "\n", "g", "a", "d", "g", "e", "t", ".", "\n", "\n", "M",
     "o", "r", "e", ".", "\n" >>

SubjectInitial ==
  << "i", "n", "i", "t", "i", "a", "l" >>

SubjectUpdate ==
  << "u", "p", "d", "a", "t", "e", ",", " ", "s", "e", "e", " ", "h", "t",
     "t", "p", "s", ":", "/", "/", "e", "x", "a", "m", "p", "l", "e", ".",
     "c", "o", "m", "/", "x" >>

SubjectNotes ==
  << "n", "o", "t", "e", "s", " ", "h", "t", "t", "p", "s", ":", "/", "/",
     "e", "x", "a", "m", "p", "l", "e", ".", "c", "o", "m", "/", "y", "|",
     "z", " ", "h", "t", "t", "p", "s", ":", "/", "/", "e", "x", "a", "m",
     "p", "l", "e", ".", "c", "o", "m", "/", "x" >>

ReadmeMd ==
  << "#", " ", "M", "y", " ", "T", "o", "o", "l", "s", "\n", "\n", "<", "!",
     "-", "-", " ", "r", "e", "c", "e", "n", "t", "l", "y", " ", "s", "t",
     "a", "r", "t", "s", " ", "-", "-", ">", "\n", "<", "!", "-", "-", " ",
     "r", "e", "c", "e", "n", "t", "l", "y", " ", "s", "t", "o", "p", "s",
     " ", "-", "-", ">", "\n", "\n", "A", "l", "l", " ", "t", "o", "o", "l",
     "s", ".", "\n" >>

ReadmeHtml ==
  << "<", "h", "1", " ", "i", "d", "=", "\"", "m", "y", "-", "t", "o", "o",
     "l", "s", "\"", ">", "M", "y", " ", "T", "o", "o", "l", "s", "<", "/",
     "h", "1", ">", "\n", "<", "!", "-", "-", " ", "r", "e", "c", "e", "n",
     "t", "l", "y", " ", "s", "t", "a", "r", "t", "s", " ", "-", "-", ">",
     "\n", "<", "!", "-", "-", " ", "r", "e", "c", "e", "n", "t", "l", "y",
     " ", "s", "t", "o", "p", "s", " ", "-", "-", ">", "\n", "<", "p", ">",
     "A", "l", "l", " ", "t", "o", "o", "l", "s", ".", "<", "/", "p", ">" >>

Digits == << "0", "1", "2", "3", "4", "5", "6", "7", "8", "9" >>

TwoDigits(n) == << Digits[(n \div 10) + 1], Digits[(n % 10) + 1] >>

\* An author date as %aI prints it, for a day of 2024.
AuthorDate(month, day) ==
  << "2", "0", "2", "4", "-" >> \o TwoDigits(month) \o << "-" >> \o TwoDigits(day)
    \o << "T", "1", "2", ":", "0", "0", ":", "0", "0", "+", "0", "0", ":", "0", "0" >>

Jan10 == AuthorDate(1, 10)
Feb01 == AuthorDate(2, 1)
Mar02 == AuthorDate(3, 2)

HashLength == 40

\* A commit hash as %H prints it: 40 hexadecimal digits.
CommitHash(k) == [i \in 1..HashLength |-> Digits[k + 1]]

\* The most commits a log of the widget page has.
MaxCommits == 2

\* One line of `git log --format=%H|%aI|%s` output.
LogLine(k, date, subject) ==
  CommitHash(k) \o << "|" >> \o date \o << "|" >> \o subject \o << "\n" >>

RECURSIVE LogText(_, _)
LogText(entries, k) ==
  IF entries = << >> THEN << >>
  ELSE LogLine(k, Head(entries)[1], Head(entries)[2]) \o LogText(Tail(entries), k + 1)

\* The logs of up to MaxCommits commits, in any order of author dates and
\* with either subject: git lists commits by ancestry, and an author
\* date is whatever the author's clock (or a rebase, a cherry-pick, an
\* applied patch) recorded.
LogEntries ==
  UNION {[1..n -> {Jan10, Mar02} \X {SubjectInitial, SubjectUpdate}]
           : n \in 0..MaxCommits}

GitRuns ==
  {[kind |-> "ok", stdout |-> LogText(e, 1)] : e \in LogEntries}
    \cup {[kind |-> "exit_error", stdout |-> << >>],
          [kind |-> "os_error", stdout |-> << >>]}

GadgetRun == [kind |-> "ok", stdout |-> LogText(<< << Feb01, SubjectNotes >> >>, 7)]

IndexRun == [kind |-> "ok", stdout |-> LogText(<< << Feb01, SubjectInitial >> >>, 9)]

\* Two pages that glob("*.html") both reports and that have the same
\* Path.stem: the stem of ".html" is ".html" itself.
DotHtml == << ".", "h", "t", "m", "l" >>

DotHtmlHtml == DotHtml \o DotHtml

\* The histories of the two: the second page has one change; the first has
\* none, or an older one.
DotRuns ==
  {[first  |-> [kind |-> "ok", stdout |-> e],
    second |-> [kind |-> "ok", stdout |-> LogText(<< << Mar02, SubjectInitial >> >>, 5)]] :
     e \in {<< >>, LogText(<< << Jan10, SubjectInitial >> >>, 3)}}

\* The checkouts: index.html is tracked; widget.html and gadget.html may be
\* there, gadget.html with a companion document; or the two pages of one
\* stem are there.
Trees ==
  {w \cup g \cup {<< IndexHtml, [content |-> GadgetPage, git |-> IndexRun] >>} :
     w \in {{}} \cup {{<< WidgetHtml, [content |-> WidgetPage, git |-> r] >>} : r \in GitRuns},
     g \in {{}, {<< GadgetHtml, [content |-> GadgetPage, git |-> GadgetRun] >>}}}
    \cup
  {{<< IndexHtml, [content |-> GadgetPage, git |-> IndexRun] >>,
    << DotHtml, [content |-> GadgetPage, git |-> r.first] >>,
    << DotHtmlHtml, [content |-> GadgetPage, git |-> r.second] >>} : r \in DotRuns}

NoReadme == [exists |-> FALSE, md |-> << >>, html |-> << >>]

\* A generated file that does not exist (data: the file's empty value).
NoFile(f) ==
  [exists |-> FALSE,
   data   |-> CASE f = ByMonthPage -> [toc |-> << >>, sections |-> << >>]
                [] f = IndexPage   -> [title |-> << >>,
                                       body  |-> [head |-> << >>, digest |-> NoDigest,
                                                  tail |-> << >>]]
                [] OTHER           -> << >>]

\* The function whose graph is the set of pairs.
AsFunction(pairs) ==
  [x \in {p[1] : p \in pairs} |-> (CHOOSE p \in pairs : p[1] = x)[2]]

Init ==
  /\ tree \in {AsFunction(t) : t \in Trees}
  /\ docs = AsFunction({<< Stem(GadgetHtml), [readable |-> TRUE, text |-> GadgetDocs] >>})
  /\ readme \in {NoReadme, [exists |-> TRUE, md |-> ReadmeMd, html |-> ReadmeHtml]}
  /\ fs = [f \in OutputFiles |-> NoFile(f)]
  /\ last = [op |-> "none", result |-> "none"]

Next ==
  \/ GatherLinks
  \/ BuildByMonth
  \/ BuildColophon
  \/ BuildIndex
  \/ BuildDates

Spec == Init /\ [][Next]_vars

(***************************************************************************)
(* Properties of a pipeline run on a checkout (specification Spec)         *)
(***************************************************************************)

gathered == fs[GatheredLinksJson].data
tools    == fs[ToolsJson].data

\* The commits gathered_links.json holds for a slug.
CommitsOf(slug) ==
  gathered[CHOOSE k \in DOMAIN gathered : gathered[k][1] = slug][2].commits

DatesOf(commits) == {commits[i].date : i \in DOMAIN commits}

\* The timestamp of the oldest and of the newest change of a history.
OldestDate(commits) ==
  CHOOSE d \in DatesOf(commits) : \A e \in DatesOf(commits) : StrLeq(d, e)

NewestDate(commits) ==
  CHOOSE d \in DatesOf(commits) : \A e \in DatesOf(commits) : StrLeq(e, d)

\* The history the harvest returns for a file of the checkout.
HistoryOf(name) == get_file_commit_details(GitRun(tree, name)).commits

\* C1: every record of tools.json has created <= updated, created the
\* timestamp of the oldest change of the artifact's history and updated the
\* timestamp of the newest one.
C1_CreatedIsOldestUpdatedIsNewest ==
  fs[ToolsJson].exists =>
    \A i \in DOMAIN tools :
       /\ StrLeq(tools[i].created, tools[i].updated)
       /\ tools[i].created = OldestDate(HistoryOf(tools[i].url))
       /\ tools[i].updated = NewestDate(HistoryOf(tools[i].url))

\* The candidate files of a gather_links run and what the harvest returns
\* for each of them.
Candidates == {HtmlFiles(tree, fs)[i] : i \in DOMAIN HtmlFiles(tree, fs)}

HasChanges(name) == get_file_commit_details(GitRun(tree, name)).commits # << >>

GatheredSlugs == {gathered[k][1] : k \in DOMAIN gathered}
ToolSlugs     == {tools[i].slug : i \in DOMAIN tools}

\* C2: after a gather_links run, a slug has an entry in gathered_links.json
\* iff it has a record in tools.json, iff a candidate file of that slug is
\* not excluded and its harvest returned at least one change; a file that is
\* excluded or has no changes is the file of no entry and the url of no
\* record.
C2_SameSlugsInBothOutputs ==
  fs[GatheredLinksJson].exists =>
    /\ fs[ToolsJson].exists
    /\ GatheredSlugs = ToolSlugs
    /\ Len(gathered) = Cardinality(GatheredSlugs)
    /\ \A s \in GatheredSlugs \cup {Stem(name) : name \in Candidates} :
          s \in GatheredSlugs <=>
            \E name \in Candidates :
               /\ Stem(name) = s
               /\ name \notin {IndexHtml, ColophonHtml, ByMonthHtml}
               /\ HasChanges(name)
    /\ \A name \in Candidates :
          (name \in {IndexHtml, ColophonHtml, ByMonthHtml} \/ ~HasChanges(name)) =>
             /\ \A k \in DOMAIN gathered : gathered[k][2].file # name
             /\ \A i \in DOMAIN tools : tools[i].url # name

\* C2 witness: a run that kept one page, dropped a page without changes and
\* dropped the tracked index.html.
C2_Witness ==
  /\ last = [op |-> "gather_links", result |-> "ok"]
  /\ GadgetHtml \in Candidates /\ Stem(GadgetHtml) \in ToolSlugs
  /\ WidgetHtml \in Candidates /\ ~HasChanges(WidgetHtml)
  /\ Stem(WidgetHtml) \notin ToolSlugs
  /\ IndexHtml \in Candidates /\ HasChanges(IndexHtml)
  /\ Stem(IndexHtml) \notin GatheredSlugs

\* C3: on an unchanged checkout, a run of the pipeline writes every generated
\* file that the previous run wrote with the same content again: no step
\* changes the content of an existing gathered_links.json or tools.json (the
\* checkout is all they depend on) or of a page that is the rendering of the
\* current JSON files.
UpToDate(f) ==
  CASE f = ByMonthPage ->
         fs[ToolsJson].exists /\ fs[f].data = ByMonthDocument(tools)
    [] f = ColophonPage ->
         fs[GatheredLinksJson].exists /\ fs[f].data = ColophonDocument(gathered, fs[ToolsJson])
    [] f = DatesJson ->
         fs[GatheredLinksJson].exists /\ fs[f].data = DatesDocument(gathered)
    [] f = IndexPage ->
         readme.exists /\ fs[f].data = IndexDocument(readme, fs[ToolsJson])
    [] OTHER -> TRUE

C3_RerunWritesTheSameFiles ==
  [][\A f \in OutputFiles : (fs[f].exists /\ UpToDate(f)) => fs'[f] = fs[f]]_vars

\* C4: the harvest never raises, so a gather_links run always ends normally.
C4_GatherLinksNeverRaises ==
  last.op = "gather_links" => last.result = "ok"

\* The file whose absence makes a renderer print its diagnostic and return,
\* and the file the renderer writes.  (build_colophon and build_index also
\* read tools.json, but go on without it.)
RequiredMissing(op) ==
  CASE op = "build_by_month" -> ~fs[ToolsJson].exists
    [] op = "build_colophon" -> ~fs[GatheredLinksJson].exists
    [] op = "build_dates"    -> ~fs[GatheredLinksJson].exists
    [] op = "build_index"    -> ~readme.exists

Renderers == {"build_by_month", "build_colophon", "build_dates", "build_index"}

\* C5: a renderer that runs while the upstream file it requires is missing
\* reports it and returns: it neither raises nor writes any file.
C5_RendererSkipsWhenUpstreamMissing ==
  [][\A op \in Renderers :
       (last'.op = op /\ RequiredMissing(op)) => (last'.result = "skipped" /\ fs' = fs)]_vars

\* C5 witness: after gather_links, build_index found no README.md and
\* returned without writing index.html.
C5_Witness ==
  /\ last = [op |-> "build_index", result |-> "skipped"]
  /\ fs[ToolsJson].exists
  /\ ~readme.exists
  /\ ~fs[IndexPage].exists

\* The scenario of the specification: widget has two changes, of 2024-03-02
\* (listed first by git) and of 2024-01-10.
ScenarioLog ==
  LogText(<< << Mar02, SubjectUpdate >>, << Jan10, SubjectInitial >> >>, 1)

Scenario ==
  /\ WidgetHtml \in DOMAIN tree
  /\ tree[WidgetHtml].git = [kind |-> "ok", stdout |-> ScenarioLog]

WidgetRecord == tools[CHOOSE i \in DOMAIN tools : tools[i].slug = Stem(WidgetHtml)]

\* The bucket keys of the sections of by-month.html that list the slug.
SectionsListing(slug) ==
  LET sections == fs[ByMonthPage].data.sections
  IN  {sections[k].ym : k \in {j \in DOMAIN sections :
          \E i \in DOMAIN sections[j].items : sections[j].items[i].tool.slug = slug}}

Month01 == << "2", "0", "2", "4", "-", "0", "1" >>
Month03 == << "2", "0", "2", "4", "-", "0", "3" >>
Day0110 == << "2", "0", "2", "4", "-", "0", "1", "-", "1", "0" >>
Day0302 == << "2", "0", "2", "4", "-", "0", "3", "-", "0", "2" >>

ScenarioRendered ==
  /\ Scenario
  /\ fs[ToolsJson].exists
  /\ fs[ByMonthPage].exists

\* C8 as stated: in the scenario the record is created 2024-01-10, updated
\* 2024-03-02, and by-month.html lists widget under 2024-03.
C8_ScenarioBucketIsMarch ==
  ScenarioRendered =>
    /\ Take(WidgetRecord.created, 10) = Day0110
    /\ Take(WidgetRecord.updated, 10) = Day0302
    /\ SectionsListing(Stem(WidgetHtml)) = {Month03}

\* C8 amended: in the scenario the record is created 2024-01-10, updated
\* 2024-03-02, and by-month.html lists widget under 2024-01, the month of
\* its creation, and under no other month.
C8_ScenarioBucketIsJanuary ==
  ScenarioRendered =>
    /\ Take(WidgetRecord.created, 10) = Day0110
    /\ Take(WidgetRecord.updated, 10) = Day0302
    /\ SectionsListing(Stem(WidgetHtml)) = {Month01}

C8_Witness ==
  /\ ScenarioRendered
  /\ last = [op |-> "build_by_month", result |-> "ok"]
  /\ SectionsListing(Stem(WidgetHtml)) # {}

\* The newest date among the changes a colophon section lists.
NewestListed(entry) ==
  CHOOSE d \in {entry.history[i].date : i \in DOMAIN entry.history} :
     \A i \in DOMAIN entry.history : StrLeq(entry.history[i].date, d)

\* C9: colophon.html lists the artifacts by the timestamp of their most
\* recent change, newest first, and each artifact's changes in stored order.
C9_ColophonNewestFirst ==
  (fs[ColophonPage].exists /\ fs[GatheredLinksJson].exists) =>
    LET page == fs[ColophonPage].data
    IN  /\ \A k \in 1..(Len(page) - 1) :
              StrLeq(NewestListed(page[k + 1]), NewestListed(page[k]))
        /\ \A k \in DOMAIN page :
              LET commits == CommitsOf(page[k].slug)
              IN  /\ Len(page[k].history) = Len(commits)
                  /\ \A i \in DOMAIN commits :
                        /\ page[k].history[i].message = commits[i].message
                        /\ page[k].history[i].date = Take(commits[i].date, 10)

(***************************************************************************)
(* build_by_month on any tools.json (specification SpecByMonth)            *)
(***************************************************************************)

\* The most records a tools.json given to build_by_month holds.
MaxTools == 3

Jan22 == AuthorDate(1, 22)

YearOnly == << "2", "0", "2", "4" >>

\* created values: empty, three timestamps (two of one month), and a value
\* shorter than a YYYY-MM key.
CreatedValues == {<< >>, Jan10, Jan22, Mar02, YearOnly}

SlugOf(i) == << "t" >> \o TwoDigits(i)

HtmlSuffix == << ".", "h", "t", "m", "l" >>

\* A record of tools.json.
Record(slug, created, updated) ==
  [slug        |-> slug,
   title       |-> << "T", "o", "o", "l", " " >> \o slug,
   description |-> << >>,
   url         |-> slug \o HtmlSuffix,
   created     |-> created,
   updated     |-> updated]

ToolLists ==
  UNION {{[i \in 1..n |-> Record(SlugOf(i), c[i], Mar02)] : c \in [1..n -> CreatedValues]}
           : n \in 0..MaxTools}

NoTree == AsFunction({})

InitByMonth ==
  /\ tree = NoTree
  /\ docs = NoTree
  /\ readme = NoReadme
  /\ fs \in {[f \in OutputFiles |-> IF f = ToolsJson THEN t ELSE NoFile(f)] :
               t \in {NoFile(ToolsJson)} \cup {File(l) : l \in ToolLists}}
  /\ last = [op |-> "none", result |-> "none"]

NextByMonth == BuildByMonth

SpecByMonth == InitByMonth /\ [][NextByMonth]_vars

\* The places <<section, item>> of by-month.html that show the record r.
Places(r) ==
  LET sections == fs[ByMonthPage].data.sections
  IN  {p \in (DOMAIN sections) \X (1..Len(tools)) :
         /\ p[2] \in DOMAIN sections[p[1]].items
         /\ sections[p[1]].items[p[2]].tool = r}

\* C6: the sections of by-month.html partition the records whose created is
\* not empty: each is shown as often as tools.json holds it, always in the
\* one section keyed by the first 7 characters of its created; a record with
\* an empty created is shown nowhere; no section is empty; the table of
\* contents counts each section's records.
C6_BucketsPartitionByMonth ==
  fs[ByMonthPage].exists =>
    LET sections == fs[ByMonthPage].data.sections
        toc      == fs[ByMonthPage].data.toc
    IN  /\ \A j \in DOMAIN tools :
              IF tools[j].created = << >>
                THEN Places(tools[j]) = {}
                ELSE /\ Cardinality(Places(tools[j]))
                          = Cardinality({i \in DOMAIN tools : tools[i] = tools[j]})
                     /\ \A p \in Places(tools[j]) :
                           sections[p[1]].ym = Take(tools[j].created, 7)
        /\ \A k \in DOMAIN sections :
              /\ sections[k].items # << >>
              /\ \A i \in DOMAIN sections[k].items :
                    \E j \in DOMAIN tools : sections[k].items[i].tool = tools[j]
              /\ \A l \in DOMAIN sections : sections[l].ym = sections[k].ym => l = k
        /\ Len(toc) = Len(sections)
        /\ \A k \in DOMAIN toc :
              toc[k].ym = sections[k].ym /\ toc[k].count = Len(sections[k].items)

\* C6 witness: a page made from a record without created and two records of
\* January, which share the one section.
C6_Witness ==
  /\ fs[ByMonthPage].exists
  /\ Len(tools) = 3
  /\ tools[1].created = << >>
  /\ tools[2].created = Jan22
  /\ tools[3].created = Jan10
  /\ Len(fs[ByMonthPage].data.sections) = 1
  /\ Len(fs[ByMonthPage].data.sections[1].items) = 2

\* C7: inside each section the records are in non-decreasing order of
\* created; the section keys are strictly decreasing, in the table of
\* contents as in the sections.
C7_SectionsOldestFirstMonthsNewestFirst ==
  fs[ByMonthPage].exists =>
    LET sections == fs[ByMonthPage].data.sections
        toc      == fs[ByMonthPage].data.toc
    IN  /\ \A k \in DOMAIN sections :
              \A i, j \in DOMAIN sections[k].items :
                 i < j => StrLeq(sections[k].items[i].tool.created,
                                 sections[k].items[j].tool.created)
        /\ \A k \in 1..(Len(sections) - 1) : StrLess(sections[k + 1].ym, sections[k].ym)
        /\ \A k \in 1..(Len(toc) - 1) : StrLess(toc[k + 1].ym, toc[k].ym)

\* C7 witness: tools.json lists January 22 before January 10 and March
\* last; the page shows March first and January 10 before January 22.
C7_Witness ==
  /\ fs[ByMonthPage].exists
  /\ Len(tools) = 3
  /\ tools[1].created = Jan22
  /\ tools[2].created = Jan10
  /\ tools[3].created = Mar02
  /\ Len(fs[ByMonthPage].data.sections) = 2
  /\ fs[ByMonthPage].data.sections[1].ym = Month03
  /\ fs[ByMonthPage].data.sections[2].items[1].tool.created = Jan10

(***************************************************************************)
(* build_index on any tools.json (specification SpecIndex)                 *)
(***************************************************************************)

\* The most records a tools.json given to build_index holds.
MaxRecords == 11

Days == << Jan10, Feb01, Mar02 >>

\* The lists of n records whose created and updated values run through Days
\* with steps a and c from offsets b and d; with dup, the last record has
\* the slug of the first.
RecordList(n, a, b, c, d, dup) ==
  [i \in 1..n |->
     Record(SlugOf(IF dup /\ i = n THEN 1 ELSE i),
            Days[((a * i + b) % 3) + 1],
            Days[((c * i + d) % 3) + 1])]

RecordLists ==
  {RecordList(n, p[1], p[2], p[3], p[4], dup) :
     n \in 0..MaxRecords, p \in (0..2) \X (0..2) \X (0..2) \X (0..2), dup \in BOOLEAN}

InitIndex ==
  /\ tree = NoTree
  /\ docs = NoTree
  /\ readme \in {NoReadme, [exists |-> TRUE, md |-> ReadmeMd, html |-> ReadmeHtml]}
  /\ fs \in {[f \in OutputFiles |-> IF f = ToolsJson THEN t ELSE NoFile(f)] :
               t \in {NoFile(ToolsJson)} \cup {File(l) : l \in RecordLists}}
  /\ last = [op |-> "none", result |-> "none"]

NextIndex == BuildIndex

SpecIndex == InitIndex /\ [][NextIndex]_vars

UniqueSlugs == \A i, j \in DOMAIN tools : tools[i].slug = tools[j].slug => i = j

\* Record i comes before record j in the order "created descending" (and
\* "updated descending"), records with equal values in the order of the list.
NewerCreated(i, j) ==
  \/ StrLess(tools[j].created, tools[i].created)
  \/ tools[i].created = tools[j].created /\ i < j

NewerUpdated(i, j) ==
  \/ StrLess(tools[j].updated, tools[i].updated)
  \/ tools[i].updated = tools[j].updated /\ i < j

\* The first RECENT_LIMIT records by created descending.
AddedRef ==
  {i \in DOMAIN tools : Cardinality({j \in DOMAIN tools : NewerCreated(j, i)}) < RECENT_LIMIT}

\* Of the records not recently added, the first RECENT_LIMIT by updated
\* descending.
UpdatedRef ==
  {i \in DOMAIN tools \ AddedRef :
     Cardinality({j \in DOMAIN tools \ AddedRef : NewerUpdated(j, i)}) < RECENT_LIMIT}

\* C10: for a non-empty tools.json with unique slugs, the digest of
\* index.html lists as recently added the first 5 records by created
\* descending, and as recently updated the records not recently added, by
\* updated descending, up to 5 of them: the lists are disjoint, have at most
\* 5 entries each, and recently updated has min(5, records not recently
\* added) entries.
C10_RecentListsAreTopFive ==
  (fs[IndexPage].exists /\ fs[ToolsJson].exists /\ tools # << >> /\ UniqueSlugs) =>
    LET digest  == fs[IndexPage].data.body.digest
        added   == digest.added
        updated == digest.updated
        pool    == DOMAIN tools \ AddedRef
    IN  /\ ~digest.empty
        /\ Len(added) = Cardinality(AddedRef)
        /\ Len(added) = MinOf(RECENT_LIMIT, Len(tools))
        /\ \A k \in DOMAIN added :
              \E i \in AddedRef :
                 /\ Cardinality({j \in DOMAIN tools : NewerCreated(j, i)}) = k - 1
                 /\ added[k].url = tools[i].url
                 /\ added[k].title = tools[i].title
                 /\ added[k].date = Take(tools[i].created, 10)
        /\ Len(updated) = MinOf(RECENT_LIMIT, Cardinality(pool))
        /\ \A k \in DOMAIN updated :
              \E i \in UpdatedRef :
                 /\ Cardinality({j \in pool : NewerUpdated(j, i)}) = k - 1
                 /\ updated[k].url = tools[i].url
                 /\ updated[k].title = tools[i].title
                 /\ updated[k].date = Take(tools[i].updated, 10)
        /\ \A k \in DOMAIN added : \A l \in DOMAIN updated : added[k].url # updated[l].url

\* C10 witness: 11 records with unique slugs, so that five are recently
\* added and the loop stops at five recently updated with one record left.
C10_Witness ==
  /\ fs[IndexPage].exists /\ fs[ToolsJson].exists /\ UniqueSlugs
  /\ Len(tools) = 11
  /\ Len(fs[IndexPage].data.body.digest.added) = 5
  /\ Len(fs[IndexPage].data.body.digest.updated) = 5
  /\ \E i, j \in DOMAIN tools : tools[i].created # tools[j].created

(***************************************************************************)
(* build_index on any README.md (specification SpecInject)                 *)
(***************************************************************************)

\* The most blocks a README.md given to build_index holds.
MaxBlocks == 3

\* The blocks of a README.md: the markdown of each and the markup that
\* md.convert gives for it.  A heading becomes an <h1> element, a line of
\* text a <p> element, and a marker comment is passed through as it is.
HeadingMd ==
  << "#", " ", "T" >>

HeadingBlock ==
  << "<", "h", "1", " ", "i", "d", "=", "\"", "t", "\"", ">", "T", "<", "/",
     "h", "1", ">" >>

TextMd ==
  << "A", "l", "l", " ", "t", "o", "o", "l", "s", "." >>

TextBlock ==
  << "<", "p", ">", "A", "l", "l", " ", "t", "o", "o", "l", "s", ".", "<",
     "/", "p", ">" >>

Blocks ==
  {[md |-> HeadingMd, html |-> HeadingBlock],
   [md |-> TextMd, html |-> TextBlock],
   [md |-> StartMarker, html |-> StartMarker],
   [md |-> EndMarker, html |-> EndMarker]}

\* The documents of up to MaxBlocks blocks: in README.md the blocks are
\* separated by an empty line, in the converted body by a line break.
Readmes ==
  UNION {{[exists |-> TRUE,
           md     |-> Join([i \in 1..n |-> b[i].md], << "\n", "\n" >>),
           html   |-> Join([i \in 1..n |-> b[i].html], << "\n" >>)] : b \in [1..n -> Blocks]}
           : n \in 0..MaxBlocks}

\* tools.json for the digest: absent, an empty list, or two records.
DigestTools ==
  {NoFile(ToolsJson), File(<< >>),
   File(<< Record(SlugOf(1), Mar02, Mar02), Record(SlugOf(2), Jan10, Feb01) >>)}

InitInject ==
  /\ tree = NoTree
  /\ docs = NoTree
  /\ readme \in Readmes
  /\ fs \in {[f \in OutputFiles |-> IF f = ToolsJson THEN t ELSE NoFile(f)] : t \in DigestTools}
  /\ last = [op |-> "none", result |-> "none"]

NextInject == BuildIndex

SpecInject == InitInject /\ [][NextInject]_vars

IsPrefix(p, s) == Len(p) <= Len(s) /\ SubSeq(s, 1, Len(p)) = p

IsSuffix(p, s) == Len(p) <= Len(s) /\ SubSeq(s, Len(s) - Len(p) + 1, Len(s)) = p

\* The digest build_index computes from tools.json.
ComputedDigest ==
  IF fs[ToolsJson].exists THEN build_recent_section(fs[ToolsJson].data) ELSE NoDigest

\* index.html shows digest d between the first before characters of body and
\* its last Len(body) - after characters, a line break after the first part
\* and, with closing, one before the second.
Placed(page, body, d, before, after, closing) ==
  /\ page.digest = d
  /\ page.head = SubSeq(body, 1, before) \o << "\n" >>
  /\ page.tail = (IF closing THEN << "\n" >> ELSE << >>) \o SubSeq(body, after + 1, Len(body))

\* C11: build_index puts the digest between the start marker and the end
\* marker when the converted body holds both; otherwise, when a digest was
\* computed and the body holds a </h1>, directly after the first </h1>;
\* otherwise the body is written unchanged and without a digest.  The text
\* of the body outside the injected region is kept once and in order: the
\* page is a prefix of the body, the digest, and a suffix of the body that
\* starts no earlier than the prefix ends.
C11_DigestPlacedByMarkersOrHeading ==
  (fs[IndexPage].exists /\ readme.exists) =>
    LET body == readme.html
        page == fs[IndexPage].data.body
    IN  IF Contains(body, StartMarker) /\ Contains(body, EndMarker)
          THEN \E before, after \in 0..Len(body) :
                  /\ before <= after
                  /\ IsSuffix(StartMarker, SubSeq(body, 1, before))
                  /\ IsPrefix(EndMarker, SubSeq(body, after + 1, Len(body)))
                  /\ Placed(page, body, ComputedDigest, before, after, TRUE)
        ELSE IF ComputedDigest # NoDigest /\ Contains(body, HeadingClose)
          THEN LET pos == Find(body, HeadingClose) + Len(HeadingClose)
               IN  Placed(page, body, ComputedDigest, pos, pos, FALSE)
        ELSE /\ page.digest = NoDigest
             /\ page.head \o page.tail = body

\* The converted body holds the end marker before the start marker.
MarkersReversed ==
  /\ readme.exists
  /\ Contains(readme.html, StartMarker) /\ Contains(readme.html, EndMarker)
  /\ Find(readme.html, EndMarker) < Find(readme.html, StartMarker)

\* C11 restricted to the bodies whose first start marker is before the
\* first end marker (or that lack one of them).
C11_PlacementWithMarkersInOrder ==
  ~MarkersReversed => C11_DigestPlacedByMarkersOrHeading

\* C11 cases reached: a digest between markers, a digest after the heading
\* of a body without markers, and a body written unchanged.
C11_WitnessMarkers ==
  /\ fs[IndexPage].exists /\ ~MarkersReversed
  /\ Contains(readme.html, StartMarker) /\ Contains(readme.html, EndMarker)
  /\ Contains(readme.html, TextBlock)
  /\ ComputedDigest # NoDigest

C11_WitnessHeading ==
  /\ fs[IndexPage].exists
  /\ ~Contains(readme.html, EndMarker) /\ Contains(readme.html, StartMarker)
  /\ Contains(readme.html, HeadingClose)
  /\ fs[IndexPage].data.body.digest # NoDigest

C11_WitnessUnchanged ==
  /\ fs[IndexPage].exists
  /\ ~Contains(readme.html, HeadingClose) /\ ~Contains(readme.html, EndMarker)
  /\ readme.html # << >>
  /\ ComputedDigest # NoDigest
  /\ fs[IndexPage].data.body.digest = NoDigest

(***************************************************************************)
(* gather_links on any companion document (specification SpecDescription)  *)
(***************************************************************************)

\* The most lines a companion document holds.
MaxLines == 4

LineTitle ==
  << "#", " ", "T", "i", "t", "l", "e" >>

LineOne ==
  << "O", "n", "e", " ", "l", "i", "n", "e" >>

LineTwo ==
  << " ", " ", "t", "w", "o", " ", "#", "2", " " >>

LineSpaces ==
  << " ", " " >>

\* The lines of a companion document: empty, of spaces only, a header, and
\* two lines of text, one of them indented and with a # inside.
DocLines == {<< >>, LineSpaces, LineTitle, LineOne, LineTwo}

\* The text of a document: each line ends with a line break.
DocText(lines) == Join(lines, << "\n" >>) \o (IF lines = << >> THEN << >> ELSE << "\n" >>)

\* widget.docs.md: absent, unreadable, or any document of up to MaxLines lines.
CompanionDocs ==
  {NoTree, AsFunction({<< Stem(WidgetHtml), [readable |-> FALSE, text |-> << >>] >>})}
    \cup UNION {{AsFunction({<< Stem(WidgetHtml),
                               [readable |-> TRUE, text |-> DocText(l)] >>})
                   : l \in [1..n -> DocLines]} : n \in 0..MaxLines}

WidgetRun == [kind |-> "ok", stdout |-> LogText(<< << Jan10, SubjectInitial >> >>, 1)]

InitDescription ==
  /\ tree = AsFunction({<< WidgetHtml, [content |-> WidgetPage, git |-> WidgetRun] >>})
  /\ docs \in CompanionDocs
  /\ readme = NoReadme
  /\ fs = [f \in OutputFiles |-> NoFile(f)]
  /\ last = [op |-> "none", result |-> "none"]

NextDescription == GatherLinks

SpecDescription == InitDescription /\ [][NextDescription]_vars

IsBlank(line) == Strip(line) = << >>

IsHeader(line) == StartsWith(Strip(line), << "#" >>)

\* The reference rule on a document given as its lines: the header lines
\* (and blank lines) in front are skipped, the non-blank lines that follow
\* up to the first blank line are the paragraph, and the paragraph's lines,
\* trimmed, are joined with single spaces.
RECURSIVE SkipLeading(_)
SkipLeading(lines) ==
  IF lines # << >> /\ (IsBlank(Head(lines)) \/ IsHeader(Head(lines)))
    THEN SkipLeading(Tail(lines))
    ELSE lines

RECURSIVE FirstRun(_)
FirstRun(lines) ==
  IF lines = << >> \/ IsBlank(Head(lines)) THEN << >>
  ELSE << Strip(Head(lines)) >> \o FirstRun(Tail(lines))

ReferenceDescription(lines) == Join(FirstRun(SkipLeading(lines)), << " " >>)

WidgetDoc == docs[Stem(WidgetHtml)]

WidgetDescribed ==
  /\ fs[ToolsJson].exists
  /\ Len(tools) = 1
  /\ tools[1].slug = Stem(WidgetHtml)

\* C12: the description gather_links records is the one the reference rule
\* gives for the companion document's lines, and the empty string when the
\* document is absent, unreadable or holds no paragraph.
C12_DescriptionFollowsReferenceRule ==
  WidgetDescribed =>
    tools[1].description =
      (IF Stem(WidgetHtml) \notin DOMAIN docs THEN << >>
       ELSE IF ~WidgetDoc.readable THEN << >>
       ELSE ReferenceDescription(Split(WidgetDoc.text, "\n")))

\* The document has a header line directly under a line of its first
\* paragraph.
RECURSIVE HeaderInRun(_)
HeaderInRun(lines) ==
  /\ lines # << >>
  /\ ~IsBlank(Head(lines))
  /\ (IsHeader(Head(lines)) \/ HeaderInRun(Tail(lines)))

HeaderInsideParagraph ==
  /\ Stem(WidgetHtml) \in DOMAIN docs
  /\ WidgetDoc.readable
  /\ HeaderInRun(SkipLeading(Split(WidgetDoc.text, "\n")))

\* C12 restricted to the documents without a header line inside the first
\* paragraph.
C12_FollowsRuleWithoutInnerHeader ==
  ~HeaderInsideParagraph => C12_DescriptionFollowsReferenceRule

\* C12 cases reached: a paragraph of two lines after a header and a blank
\* line, and an unreadable document.
C12_WitnessParagraph ==
  /\ WidgetDescribed
  /\ Stem(WidgetHtml) \in DOMAIN docs
  /\ WidgetDoc.readable
  /\ Split(WidgetDoc.text, "\n") = << LineTitle, << >>, LineOne, LineTwo, << >> >>
  /\ tools[1].description = LineOne \o << " " >> \o Strip(LineTwo)

C12_WitnessUnreadable ==
  /\ WidgetDescribed
  /\ Stem(WidgetHtml) \in DOMAIN docs
  /\ ~WidgetDoc.readable
  /\ tools[1].description = << >>

====
